---- MODULE Spec2Model ----
(***************************************************************************)
(* Ledger & Posting Engine of the accounting application: journal entries, *)
(* journal lines and the cached account balances, as kept by the routes of *)
(* routes/journalEntries.js and the models JournalEntry / JournalLine.     *)
(*                                                                         *)
(* Amounts are integers counted in hundredths of a currency unit, so the   *)
(* balancing tolerance 0.01 of the code is the integer 1.                  *)
(*                                                                         *)
(* Every route opens a MongoDB session and transaction.  A write made with *)
(* { session } is staged and becomes visible at commitTransaction; a read  *)
(* or write made without the session option runs outside the transaction:  *)
(* it sees the committed data only and takes effect at once, also when the *)
(* transaction is aborted later.  Each action below is one whole request.  *)
(***************************************************************************)
EXTENDS Integers, Sequences, FiniteSets

\* ---------------------------------------------------------------- bounds
MaxEntries == 2      \* journal entries ever created (ids are never reused)
MaxOps == 4          \* requests served in one run
MaxDay == 2          \* entry dates and report dates are days 1..MaxDay
MaxInactive == 1     \* accounts that are inactive at the same time
MaxClock == 2        \* the clock that reports read runs from 1 to MaxClock
MaxLineAmount == 2   \* debit, credit and starting balance of the line the engines are compared on
MaxAccounts == 3     \* accounts created through the accounts routes
MaxAccountOps == 3   \* requests served by the accounts routes

\* ------------------------------------------------------- program constants
Tol == 1             \* Math.abs(totalDebits - totalCredits) > 0.01

\* ------------------------------------------------------------ static data
Orgs == {"o1", "o2"}
NoOrg == "system"    \* a background job, no caller
Journals == {"j1", "j2"}
journalOrg == [j \in Journals |-> IF j = "j1" THEN "o1" ELSE "o2"]

\* Journal.type, and the yymm of the current date (all requests fall in one month).
journalType == [j \in Journals |-> "general"]
YearMonth == 2505

Accounts == {"cash", "sales", "bank2", "rent", "equipment", "loan", "capital"}
accOrg == [a \in Accounts |-> IF a = "bank2" THEN "o2" ELSE "o1"]
accType ==
  [a \in Accounts |->
     CASE a = "sales" -> "revenue"
       [] a = "rent" -> "expense"
       [] a = "loan" -> "liability"
       [] a = "capital" -> "equity"
       [] OTHER -> "asset"]
accSubtype ==
  [a \in Accounts |->
     CASE a \in {"cash", "bank2"} -> "cash"
       [] a = "equipment" -> "fixed-assets"
       [] a = "loan" -> "loans"
       [] OTHER -> "none"]

Statuses == {"draft", "posted", "reconciled", "reversed", "voided"}
NoStatus == "none"   \* the request carries no status field
Absent == "absent"   \* no such document (never created, or deleted)

EntryIds == 1..MaxEntries
NoEntry == 0

Ln(a, d, c) == [accountId |-> a, debit |-> d, credit |-> c]

\* Line lists a request body may carry (req.body.lines).
Balanced == << Ln("cash", 2, 0), Ln("sales", 0, 2) >>
Repeated == << Ln("cash", 1, 0), Ln("cash", 1, 0), Ln("sales", 0, 2) >>  \* one account twice
OffByCent == << Ln("cash", 1, 0) >>                      \* debits - credits = 0.01
Lopsided == << Ln("cash", 3, 0), Ln("sales", 0, 1) >>    \* debits - credits = 0.02
BadLine == << Ln("sales", 0, 1), Ln("cash", 1, 1) >>     \* second line: debit and credit
Foreign == << Ln("bank2", 1, 0) >>                       \* an account of o2
Mixed == << Ln("cash", 1, 0), Ln("bank2", 0, 1) >>       \* second line: an account of o2

Body(st, ls) == [status |-> st, lines |-> ls]

\* The request bodies of the create and update routes: every line list without
\* a status field, and every status with a line list.
Bodies ==
  { Body(NoStatus, ls) : ls \in {Balanced, Repeated, OffByCent, Lopsided, BadLine, Foreign} }
    \cup { Body(st, Balanced) : st \in Statuses }
    \cup { Body("posted", ls) : ls \in {OffByCent, Lopsided} }
    \cup { Body("voided", Mixed) }

\* The request bodies that carry no status field.
DraftBodies == { b \in Bodies : b.status = NoStatus }

VARIABLES
  entries,    \* JournalEntry collection: id -> document (status Absent when none)
  lines,      \* JournalLine collection: entry id -> its lines, in insertion order
  balance,    \* ChartOfAccounts.balance.amount per account
  nextId,     \* the next fresh _id
  ops,        \* requests served so far
  txEntry,    \* StabulumTransaction.journalEntryId of the pending transaction
  last,       \* the last request: operation, caller, entry, answered 2xx, changed data
  hist,       \* the running post / void / reverse chain and the balances before it
  proc,       \* the requests in progress when requests overlap: one record each
  rep,        \* reporting: the accounts' isActive flags, the entries' dates, the last report
  entryNumber, \* JournalEntry.entryNumber: entry id -> the parts between its hyphens
  chart,       \* ChartOfAccounts collection of the accounts routes: id -> document
  nextAccount, \* the next fresh account _id
  lastAccount, \* the last request to the accounts routes
  calc         \* one line on one account, and what each engine makes of it

vars == << entries, lines, balance, nextId, ops, txEntry, last, hist, proc, rep, entryNumber,
          chart, nextAccount, lastAccount, calc >>

NoDoc == [status |-> Absent, org |-> "o1", journal |-> "j1",
          reversalOf |-> NoEntry, reversedBy |-> NoEntry]

ZeroBal == [a \in Accounts |-> 0]
NoHist == [stage |-> "none", e |-> NoEntry, r |-> NoEntry, bal |-> ZeroBal]

\* The handlers that can be in progress at the same time.
Procs == {"p1", "p2"}

\* A session with no transaction under way.
NoTx == [active |-> FALSE, docs |-> {}, status |-> NoStatus, bal |-> ZeroBal, dirty |-> {}]

\* No report generated: every account active, every entry dated on day 1, the
\* clock at 1.
NoReport == [name |-> "none"]
NoRep == [active |-> [a \in Accounts |-> TRUE], date |-> [e \in EntryIds |-> 1],
          report |-> NoReport, now |-> 1]

\* The accounts routes: ids of the accounts, 0 for none.
AccountIds == 1..MaxAccounts
NoAccount == 0
AccountTypes == {"asset", "liability", "equity", "revenue", "expense"}
NoAccountDoc == [exists |-> FALSE, org |-> "o1", accountNumber |-> 0, type |-> "asset",
                 parentAccount |-> NoAccount, isArchived |-> FALSE]
NoAccountRequest == [op |-> "none", org |-> NoOrg, a |-> NoAccount, ok |-> TRUE,
                     type |-> "asset", generated |-> 0, n |-> 0]
NoChart == [a \in AccountIds |-> NoAccountDoc]

\* No line handed to the engines.
Engines == {"post", "hook", "void", "report", "retained", "beginning", "running",
            "transactions"}
NoCalc == [a |-> "cash", ln |-> [accountId |-> "cash", debit |-> 0, credit |-> 0],
           amount |-> 0, done |-> {}, result |-> [k \in Engines |-> 0]]

\* The entryNumber of an entry that does not exist.
NoNumber == << >>

\* A handler that has not been called.
Idle == [pc |-> "idle", op |-> "none", e |-> NoEntry, doc |-> NoDoc, ls |-> << >>,
         i |-> 0, amount |-> 0, r |-> NoEntry, tx |-> NoTx, ok |-> FALSE]

Init ==
  /\ entries = [e \in EntryIds |-> NoDoc]
  /\ lines = [e \in EntryIds |-> << >>]
  /\ balance = ZeroBal
  /\ nextId = 1
  /\ ops = 0
  /\ txEntry = NoEntry
  /\ last = [op |-> "init", org |-> NoOrg, e |-> NoEntry, ok |-> TRUE, changed |-> FALSE]
  /\ hist = NoHist
  /\ proc = [p \in Procs |-> Idle]
  /\ rep = NoRep
  /\ entryNumber = [e \in EntryIds |-> NoNumber]
  /\ chart = NoChart
  /\ nextAccount = 1
  /\ lastAccount = NoAccountRequest
  /\ calc = NoCalc

\* ------------------------------------------------------ JournalLine model
\* Mutant of LineValid: the check for a line with both amounts left out.
LineValid_BothAllowed(ln) ==
  /\ ln.debit >= 0
  /\ ln.credit >= 0
  /\ ~(ln.debit = 0 /\ ln.credit = 0)

\* schema min: 0 on debit and credit, and JournalLineSchema.pre('validate')
LineValid(ln) ==
  /\ ln.debit >= 0
  /\ ln.credit >= 0
  /\ ~(ln.debit > 0 /\ ln.credit > 0)
  /\ ~(ln.debit = 0 /\ ln.credit = 0)

RECURSIVE TotalDebits(_)
TotalDebits(ls) == IF ls = << >> THEN 0 ELSE Head(ls).debit + TotalDebits(Tail(ls))

RECURSIVE TotalCredits(_)
TotalCredits(ls) == IF ls = << >> THEN 0 ELSE Head(ls).credit + TotalCredits(Tail(ls))

Abs(x) == IF x < 0 THEN -x ELSE x

\* Mutant of Unbalanced: the tolerance one unit too wide.
Unbalanced_WideTolerance(ls) == Abs(TotalDebits(ls) - TotalCredits(ls)) > Tol + 1

\* Math.abs(totalDebits - totalCredits) > 0.01
Unbalanced(ls) == Abs(TotalDebits(ls) - TotalCredits(ls)) > Tol

\* The balance update of JournalLineSchema.post('save') for one line.
HookApply(amount, type, ln) ==
  LET afterDebit ==
        IF ln.debit > 0
        THEN (IF type \in {"asset", "expense"} THEN amount + ln.debit ELSE amount - ln.debit)
        ELSE amount
  IN  IF ln.credit > 0
      THEN (IF type \in {"asset", "expense"} THEN afterDebit - ln.credit
                                               ELSE afterDebit + ln.credit)
      ELSE afterDebit

\* JournalLineSchema.post('save') over the lines a request saved, in order.  The
\* hook reads the entry and the account without a session (committed data) and
\* saves the account without a session (effective at once).
RECURSIVE LineSaveHooks(_, _, _)
LineSaveHooks(bal, committedStatus, ls) ==
  IF ls = << >> THEN bal
  ELSE LET ln == Head(ls)
           a == ln.accountId
           next == IF committedStatus = "posted"
                   THEN [bal EXCEPT ![a] = HookApply(bal[a], accType[a], ln)]
                   ELSE bal
       IN  LineSaveHooks(next, committedStatus, Tail(ls))

\* ----------------------------------------------------- JournalEntry model
\* JournalEntrySchema.pre('save'): the lines are read without a session.
PreSaveOk(status, committedLines) ==
  status = "posted" => (Len(committedLines) # 0 /\ ~Unbalanced(committedLines))

\* The lines of a request body that are saved before the loop stops: it stops at
\* the first line whose account is not found in the caller's organization
\* (400) or whose save fails validation (throw).
RECURSIVE SavedPrefix(_, _)
SavedPrefix(org, ls) ==
  IF ls = << >> THEN << >>
  ELSE IF accOrg[Head(ls).accountId] = org /\ LineValid(Head(ls))
       THEN << Head(ls) >> \o SavedPrefix(org, Tail(ls))
       ELSE << >>

\* new JournalLine({ lineNumber: i + 1, accountId, debit, credit })
NumberLines(ls) ==
  [i \in 1..Len(ls) |-> [lineNumber |-> i, accountId |-> ls[i].accountId,
                         debit |-> ls[i].debit, credit |-> ls[i].credit]]

\* One more request is served.  A run ends with its first request that is
\* refused without any effect: it leaves every collection as it was, so the runs
\* that go on after it visit no ledger state the others do not.
Serve ==
  /\ ops < MaxOps
  /\ last.ok \/ last.changed
  /\ ops' = ops + 1
  /\ UNCHANGED << proc, rep, chart, nextAccount, lastAccount, calc >>

\* What last remembers of a request.
Answer(op, org, e, ok) ==
  [op |-> op, org |-> org, e |-> e, ok |-> ok,
   changed |-> (entries' # entries \/ lines' # lines \/ balance' # balance)]

Found(org, e) == entries[e].status # Absent /\ entries[e].org = org

\* The chain hist follows: post(E); then void(E), or reverse(E) and post(R).
HistAfter(op, e, ok, r) ==
  IF ~ok THEN NoHist
  ELSE IF op = "post"
       THEN (IF hist.stage = "pr" /\ hist.r = e
             THEN [hist EXCEPT !.stage = "prp"]
             ELSE [stage |-> "p", e |-> e, r |-> NoEntry, bal |-> balance])
  ELSE IF op = "void" /\ hist.stage = "p" /\ hist.e = e
       THEN [hist EXCEPT !.stage = "pv"]
  ELSE IF op = "reverse" /\ hist.stage = "p" /\ hist.e = e
       THEN [hist EXCEPT !.stage = "pr", !.r = r]
  ELSE NoHist

\* ------------------------------------- JournalEntry.generateEntryNumber
\* journal.type.substring(0, 3).toUpperCase()
Prefix(type) ==
  CASE type = "general" -> "GEN"
    [] type = "sales" -> "SAL"
    [] type = "purchases" -> "PUR"
    [] type = "payroll" -> "PAY"
    [] type = "fixed-assets" -> "FIX"
    [] OTHER -> "CAS"

\* `${prefix}-${year}${month}-${sequenceNumber padded to 5}`: the string is kept
\* as the parts that its hyphens separate; a padded number is kept as the number.
FormatEntryNumber(prefix, yearMonth, sequenceNumber) ==
  << prefix, yearMonth, sequenceNumber >>

\* entryNumber.split('-')[k], k counted from 0; undefined is << >>.
SplitPart(number, k) == IF k + 1 <= Len(number) THEN << number[k + 1] >> ELSE << >>

\* findOne({ organizationId, journalId }, {}, { sort: { createdAt: -1 } }):
\* ids are handed out in the order of creation.
LastEntry(docs, org, j) ==
  LET es == { e \in EntryIds : /\ docs[e].status # Absent
                               /\ docs[e].org = org
                               /\ docs[e].journal = j }
  IN  IF es = {} THEN NoEntry ELSE CHOOSE e \in es : \A x \in es : x <= e

GenerateEntryNumber(docs, numbers, org, j) ==
  LET lastEntry == LastEntry(docs, org, j)
      lastSequenceStr == IF lastEntry = NoEntry THEN << >>
                         ELSE SplitPart(numbers[lastEntry], 1)
      sequenceNumber == IF lastSequenceStr # << >> /\ lastSequenceStr[1] \in Nat
                        THEN lastSequenceStr[1] + 1 ELSE 1
  IN  FormatEntryNumber(Prefix(journalType[j]), YearMonth, sequenceNumber)

\* The numbers of entries that were created in the order of their ids, none
\* deleted in between.
RECURSIVE NumbersUpTo(_, _)
NumbersUpTo(docs, n) ==
  IF n = 0 THEN [e \in EntryIds |-> NoNumber]
  ELSE LET before == NumbersUpTo(docs, n - 1)
           earlier == [e \in EntryIds |-> IF e < n THEN docs[e] ELSE NoDoc]
       IN  IF docs[n].status = Absent THEN before
           ELSE [before EXCEPT ![n] =
                   GenerateEntryNumber(earlier, before, docs[n].org, docs[n].journal)]

NumbersAsCreated(docs) == NumbersUpTo(docs, MaxEntries)

\* ------------------------------------------------ POST api/journal-entries
CreateEntry(org, j, st, ls) ==
  LET journalFound == journalOrg[j] = org
      status == IF st = NoStatus THEN "draft" ELSE st
      saveOk == PreSaveOk(status, << >>)       \* a new entry has no lines yet
      saved == SavedPrefix(org, ls)
      allSaved == Len(saved) = Len(ls)
      balancedOk == ~(status = "posted" /\ Unbalanced(ls))
      ok == journalFound /\ saveOk /\ allSaved /\ balancedOk
  IN  /\ Serve
      /\ ok => nextId <= MaxEntries
      /\ IF ok
         THEN /\ entries' = [entries EXCEPT ![nextId] =
                               [status |-> status, org |-> org, journal |-> j,
                                reversalOf |-> NoEntry, reversedBy |-> NoEntry]]
              /\ lines' = [lines EXCEPT ![nextId] = NumberLines(ls)]
              /\ nextId' = nextId + 1
              /\ entryNumber' = [entryNumber EXCEPT ![nextId] =
                                   GenerateEntryNumber(entries, entryNumber, org, j)]
         ELSE UNCHANGED << entries, lines, nextId, entryNumber >>
      \* the entry is not committed when the line hooks look it up: no update
      /\ balance' = IF journalFound /\ saveOk
                    THEN LineSaveHooks(balance, Absent, saved) ELSE balance
      /\ UNCHANGED txEntry
      /\ hist' = HistAfter("create", NoEntry, ok, NoEntry)
      /\ last' = Answer("create", org, IF ok THEN nextId ELSE NoEntry, ok)

\* --------------------------------------- POST api/journal-entries/:id/post
\* Mutant of PostApply: the two branches of the credit case exchanged.
PostApply_CreditFlipped(amount, type, ln) ==
  LET afterDebit ==
        IF ln.debit > 0
        THEN (IF type \in {"asset", "expense"} THEN amount + ln.debit ELSE amount - ln.debit)
        ELSE amount
  IN  IF ln.credit > 0
      THEN (IF type \in {"asset", "expense"} THEN afterDebit + ln.credit
                                               ELSE afterDebit - ln.credit)
      ELSE afterDebit

\* The balance update of the post route for one line.
PostApply(amount, type, ln) ==
  LET afterDebit ==
        IF ln.debit > 0
        THEN (IF type \in {"asset", "expense"} THEN amount + ln.debit ELSE amount - ln.debit)
        ELSE amount
  IN  IF ln.credit > 0
      THEN (IF type \in {"asset", "expense"} THEN afterDebit - ln.credit
                                               ELSE afterDebit + ln.credit)
      ELSE afterDebit

\* The account loop of the post route.  ChartOfAccounts.findById(line.accountId)
\* carries no session, so each line reads the committed amount; account.save({
\* session }) stages the new amount, and the commit publishes the staged ones.
RECURSIVE PostBalances(_, _, _)
PostBalances(committed, staged, ls) ==
  IF ls = << >> THEN staged
  ELSE LET ln == Head(ls)
           a == ln.accountId
       IN  PostBalances(committed,
                        [staged EXCEPT ![a] = PostApply(committed[a], accType[a], ln)],
                        Tail(ls))

\* Mutant of PostAccepts: the status check left out.
PostAccepts_AnyStatus(status, ls) ==
  /\ Len(ls) # 0
  /\ ~Unbalanced(ls)

\* The checks of the post route, in order: status, lines, balance.
PostAccepts(status, ls) ==
  /\ status = "draft"
  /\ Len(ls) # 0
  /\ ~Unbalanced(ls)

PostEntry(org, e) ==
  LET ls == lines[e]
      ok == Found(org, e) /\ PostAccepts(entries[e].status, ls) /\ PreSaveOk("posted", ls)
      newBal == PostBalances(balance, balance, ls)
  IN  /\ Serve
      /\ IF ok
         THEN /\ entries' = [entries EXCEPT ![e].status = "posted"]
              /\ balance' = newBal
         ELSE UNCHANGED << entries, balance >>
      /\ UNCHANGED << lines, nextId, txEntry, entryNumber >>
      /\ hist' = HistAfter("post", e, ok, NoEntry)
      /\ last' = Answer("post", org, e, ok)

\* --------------------------------------- POST api/journal-entries/:id/void
\* A void that undoes the debit side of a line and leaves its credit side.
VoidApply_DebitOnly(amount, type, ln) ==
  IF ln.debit > 0
  THEN (IF type \in {"asset", "expense"} THEN amount - ln.debit ELSE amount + ln.debit)
  ELSE amount

\* The balance update of voidEntry for one line.
VoidApply(amount, type, ln) ==
  LET afterDebit ==
        IF ln.debit > 0
        THEN (IF type \in {"asset", "expense"} THEN amount - ln.debit ELSE amount + ln.debit)
        ELSE amount
  IN  IF ln.credit > 0
      THEN (IF type \in {"asset", "expense"} THEN afterDebit + ln.credit
                                               ELSE afterDebit - ln.credit)
      ELSE afterDebit

\* The account loop of voidEntry: findById and account.save() both without a
\* session, so every line sees the amount the line before it wrote.
RECURSIVE VoidBalances(_, _)
VoidBalances(bal, ls) ==
  IF ls = << >> THEN bal
  ELSE LET ln == Head(ls)
           a == ln.accountId
       IN  VoidBalances([bal EXCEPT ![a] = VoidApply(bal[a], accType[a], ln)], Tail(ls))

\* Mutant of VoidRejects: the check for an already voided entry left out.
VoidRejects_OnlyReconciled(status) == status = "reconciled"

\* voidEntry throws for these statuses.
VoidRejects(status) == status = "voided" \/ status = "reconciled"

VoidEntry(org, e) ==
  LET doc == entries[e]
      ok == Found(org, e) /\ ~VoidRejects(doc.status) /\ PreSaveOk("voided", lines[e])
      newBal == IF doc.status = "posted" THEN VoidBalances(balance, lines[e]) ELSE balance
  IN  /\ Serve
      /\ IF ok
         THEN /\ entries' = [entries EXCEPT ![e].status = "voided"]
              /\ balance' = newBal
         ELSE UNCHANGED << entries, balance >>
      /\ UNCHANGED << lines, nextId, txEntry, entryNumber >>
      /\ hist' = HistAfter("void", e, ok, NoEntry)
      /\ last' = Answer("void", org, e, ok)

\* ------------------------------------ POST api/journal-entries/:id/reverse
\* Mutant of ReversalLine: debit and credit copied, not swapped.
ReversalLine_Copied(ln) ==
  [lineNumber |-> ln.lineNumber, accountId |-> ln.accountId,
   debit |-> ln.debit, credit |-> ln.credit]

\* debit: line.credit, credit: line.debit, same lineNumber and accountId
ReversalLine(ln) ==
  [lineNumber |-> ln.lineNumber, accountId |-> ln.accountId,
   debit |-> ln.credit, credit |-> ln.debit]

\* The reversal lines saved before a save fails validation.
RECURSIVE ReversalLines(_)
ReversalLines(ls) ==
  IF ls = << >> THEN << >>
  ELSE IF LineValid(ReversalLine(Head(ls)))
       THEN << ReversalLine(Head(ls)) >> \o ReversalLines(Tail(ls))
       ELSE << >>



\* Mutant of ReverseAccepts: the status check left out.
ReverseAccepts_AnyStatus(doc) == doc.reversedBy = NoEntry

\* createReversalEntry throws unless these hold.
ReverseAccepts(doc) == doc.status = "posted" /\ doc.reversedBy = NoEntry

\* createReversalEntry uses no session: the reversal entry, its lines and the
\* pointer are written one after the other, each effective at once.
ReverseEntry(org, e) ==
  LET doc == entries[e]
      started == Found(org, e) /\ ReverseAccepts(doc)
      r == nextId
      rlines == ReversalLines(lines[e])
      allSaved == Len(rlines) = Len(lines[e])
      ok == started /\ allSaved /\ PreSaveOk(doc.status, lines[e])
      rdoc == [status |-> "draft", org |-> doc.org, journal |-> doc.journal,
               reversalOf |-> e, reversedBy |-> NoEntry]
  IN  /\ Serve
      /\ started => nextId <= MaxEntries
      /\ IF started
         THEN /\ entries' = [entries EXCEPT ![r] = rdoc,
                                            ![e].reversedBy = IF ok THEN r ELSE NoEntry]
              /\ lines' = [lines EXCEPT ![r] = rlines]
              /\ nextId' = nextId + 1
              /\ balance' = LineSaveHooks(balance, rdoc.status, rlines)
              /\ entryNumber' = [entryNumber EXCEPT ![r] =
                                   GenerateEntryNumber(entries, entryNumber, doc.org, doc.journal)]
         ELSE UNCHANGED << entries, lines, nextId, balance, entryNumber >>
      /\ UNCHANGED txEntry
      /\ hist' = HistAfter("reverse", e, ok, r)
      /\ last' = Answer("reverse", org, e, ok)

\* ------------------------------------------- PUT api/journal-entries/:id
\* "Cannot modify a posted journal entry"
UpdateRefuses(status, st) == status = "posted" /\ st # "reversed" /\ st # "voided"

UpdateEntry(org, e, st, ls) ==
  LET doc == entries[e]
      status == IF st = NoStatus THEN doc.status ELSE st
      started == Found(org, e) /\ ~UpdateRefuses(doc.status, st)
                   /\ PreSaveOk(status, lines[e])
      saved == SavedPrefix(org, ls)
      allSaved == Len(saved) = Len(ls)
      balancedOk == ~(status = "posted" /\ Unbalanced(ls))
      ok == started /\ allSaved /\ balancedOk
      \* the line hooks see the committed status of the entry and write the
      \* accounts outside the transaction, whether it commits or aborts
      newBal == IF started THEN LineSaveHooks(balance, doc.status, saved) ELSE balance
  IN  /\ Serve
      /\ balance' = newBal
      /\ IF ok
         THEN /\ entries' = [entries EXCEPT ![e].status = status]
              /\ lines' = [lines EXCEPT ![e] = NumberLines(ls)]
         ELSE UNCHANGED << entries, lines >>
      /\ UNCHANGED << nextId, txEntry, entryNumber >>
      /\ hist' = HistAfter("update", e, ok, NoEntry)
      /\ last' = Answer("update", org, e, ok)

\* ---------------------------------------- DELETE api/journal-entries/:id
DeleteEntry(org, e) ==
  LET ok == Found(org, e) /\ entries[e].status = "draft"
  IN  /\ Serve
      /\ IF ok
         THEN /\ entries' = [entries EXCEPT ![e] = NoDoc]
              /\ lines' = [lines EXCEPT ![e] = << >>]
              /\ entryNumber' = [entryNumber EXCEPT ![e] = NoNumber]
         ELSE UNCHANGED << entries, lines, entryNumber >>
      /\ UNCHANGED << balance, nextId, txEntry >>
      /\ hist' = HistAfter("delete", e, ok, NoEntry)
      /\ last' = Answer("delete", org, e, ok)

\* ----------------------------------------------------- collaborator flows
\* createJournalEntryForInvoice / ForPayment / ForTransaction: the entry is
\* saved with status 'posted' before any of its lines exists.
CreatePostedEntry(org, j) ==
  LET ok == PreSaveOk("posted", << >>)
  IN  /\ Serve
      /\ ok => nextId <= MaxEntries
      /\ IF ok
         THEN /\ entries' = [entries EXCEPT ![nextId] =
                               [status |-> "posted", org |-> org, journal |-> j,
                                reversalOf |-> NoEntry, reversedBy |-> NoEntry]]
              /\ nextId' = nextId + 1
              /\ txEntry' = nextId
         ELSE UNCHANGED << entries, nextId, txEntry >>
      /\ UNCHANGED << lines, balance, entryNumber >>
      /\ hist' = HistAfter("collab", NoEntry, ok, NoEntry)
      /\ last' = Answer("collab", org, IF ok THEN nextId ELSE NoEntry, ok)

\* StabulumService.syncPendingTransactions, for a transaction that is confirmed.
SyncPendingTransactions ==
  LET e == txEntry
      present == e # NoEntry /\ entries[e].status # Absent
      ok == present /\ PreSaveOk("posted", lines[e])
  IN  /\ Serve
      /\ IF ok
         THEN entries' = [entries EXCEPT ![e].status = "posted"]
         ELSE UNCHANGED entries
      /\ UNCHANGED << lines, balance, nextId, txEntry, entryNumber >>
      /\ hist' = HistAfter("sync", e, ok, NoEntry)
      /\ last' = Answer("sync", NoOrg, e, ok)

\* ------------------------------------------------------- failing writes
\* A write of a started operation fails (the database refuses it, or the
\* connection drops): k account saves succeeded before it; k = Len(lines) is a
\* failure of the audit-record write or of the entry save.
FaultPoints(ls) == 0..Len(ls)

\* session.abortTransaction(): what was written with the session is dropped.
AbortTransaction(committed, staged) == committed

\* The post route when a write fails: every write carries the session, and the
\* catch block aborts the transaction.
PostEntryFails(org, e, k) ==
  LET ls == lines[e]
      started == Found(org, e) /\ PostAccepts(entries[e].status, ls)
                   /\ PreSaveOk("posted", ls)
      staged == PostBalances(balance, balance, SubSeq(ls, 1, k))
  IN  /\ Serve
      /\ started
      /\ k \in FaultPoints(ls)
      /\ balance' = AbortTransaction(balance, staged)
      /\ UNCHANGED << entries, lines, nextId, txEntry, entryNumber >>
      /\ hist' = HistAfter("post", e, FALSE, NoEntry)
      /\ last' = Answer("post", org, e, FALSE)

\* voidEntry when a write fails: no write carries the session, so the account
\* saves made before the failure stay; the entry save is the last write.
VoidEntryFails(org, e, k) ==
  LET doc == entries[e]
      ls == lines[e]
      started == Found(org, e) /\ ~VoidRejects(doc.status)
      written == IF doc.status = "posted"
                 THEN VoidBalances(balance, SubSeq(ls, 1, k)) ELSE balance
  IN  /\ Serve
      /\ started
      /\ k \in FaultPoints(ls)
      /\ doc.status # "posted" => k = Len(ls)
      /\ balance' = written
      /\ UNCHANGED << entries, lines, nextId, txEntry, entryNumber >>
      /\ hist' = HistAfter("void", e, FALSE, NoEntry)
      /\ last' = Answer("void", org, e, FALSE)

\* --------------------------------------------------- overlapping requests
\* The post, void and reverse handlers step by step: one step per await that
\* reads or writes a document another handler may touch.  No handler takes a
\* lock; the only ordering is what the database gives:
\*  - a read without a session returns committed data;
\*  - the transaction of a session starts with the first operation that
\*    carries the session; a write in it fails with a write conflict when the
\*    document was written by another transaction still open, or was committed
\*    by anyone since the transaction started;
\*  - a write without a session waits while an open transaction holds a write
\*    on the document, then takes effect at once.
EntryDoc(e) == << "entry", e >>
AccountDoc(a) == << "account", a >>

\* Another handler's open transaction holds a write on document d.
HeldByOther(p, d) == \E q \in Procs \ {p} : proc[q].tx.active /\ d \in proc[q].tx.docs

\* Documents ds were committed by p: the other open transactions have seen
\* them change.
Committed(pr, p, ds) ==
  [q \in Procs |-> IF q # p /\ pr[q].tx.active
                   THEN [pr[q] EXCEPT !.tx.dirty = @ \cup ds]
                   ELSE pr[q]]

Finished(pr, ok) == [pr EXCEPT !.pc = "done", !.ok = ok, !.tx = NoTx]

\* A request arrives: POST /:id/post, /:id/void or /:id/reverse.
Begin(p, op, e) ==
  /\ proc[p].pc = "idle"
  /\ entries[e].status # Absent
  /\ proc' = [proc EXCEPT ![p] = [Idle EXCEPT !.pc = "find", !.op = op, !.e = e]]
  /\ UNCHANGED << entries, lines, balance, nextId, ops, txEntry, last, hist, rep, entryNumber,
                   chart, nextAccount, lastAccount, calc >>

\* JournalEntry.findOne, the checks on the document read, JournalLine.find.
FindEntry(p) ==
  LET me == proc[p]
      doc == entries[me.e]
      ls == lines[me.e]
      accepted == CASE me.op = "post" -> PostAccepts(doc.status, ls)
                    [] me.op = "void" -> ~VoidRejects(doc.status)
                    [] OTHER -> ReverseAccepts(doc)
      first == CASE me.op = "post" -> "saveEntry"
                 [] me.op = "void" ->
                      IF doc.status = "posted" /\ Len(ls) > 0 THEN "readAccount" ELSE "saveEntry"
                 [] OTHER -> "saveReversal"
  IN  /\ me.pc = "find"
      /\ proc' = [proc EXCEPT ![p] =
                    IF accepted
                    THEN [me EXCEPT !.pc = first, !.doc = doc, !.ls = ls, !.i = 1]
                    ELSE Finished(me, FALSE)]
      /\ UNCHANGED << entries, lines, balance, nextId, ops, txEntry, last, hist, rep, entryNumber,
                   chart, nextAccount, lastAccount, calc >>

\* post: journalEntry.save({ session }), the first operation of the transaction.
PostSaveEntry(p) ==
  LET me == proc[p]
      d == EntryDoc(me.e)
  IN  /\ me.pc = "saveEntry" /\ me.op = "post"
      /\ proc' = [proc EXCEPT ![p] =
                    IF HeldByOther(p, d) \/ ~PreSaveOk("posted", lines[me.e])
                    THEN Finished(me, FALSE)
                    ELSE [me EXCEPT !.pc = "readAccount",
                                    !.tx = [active |-> TRUE, docs |-> {d}, status |-> "posted",
                                            bal |-> ZeroBal, dirty |-> {}]]]
      /\ UNCHANGED << entries, lines, balance, nextId, ops, txEntry, last, hist, rep, entryNumber,
                   chart, nextAccount, lastAccount, calc >>

\* post and void: ChartOfAccounts.findById(line.accountId), no session.
ReadAccount(p) ==
  LET me == proc[p]
  IN  /\ me.pc = "readAccount"
      /\ proc' = [proc EXCEPT ![p] =
                    [me EXCEPT !.pc = "saveAccount",
                               !.amount = balance[me.ls[me.i].accountId]]]
      /\ UNCHANGED << entries, lines, balance, nextId, ops, txEntry, last, hist, rep, entryNumber,
                   chart, nextAccount, lastAccount, calc >>

\* Where the account loop goes after line i.
AfterLine(me) ==
  IF me.i < Len(me.ls)
  THEN [me EXCEPT !.pc = "readAccount", !.i = @ + 1]
  ELSE [me EXCEPT !.pc = IF me.op = "post" THEN "commit" ELSE "saveEntry"]

\* post: account.save({ session }).
PostSaveAccount(p) ==
  LET me == proc[p]
      ln == me.ls[me.i]
      a == ln.accountId
      d == AccountDoc(a)
      staged == [me EXCEPT !.tx.docs = @ \cup {d},
                           !.tx.bal[a] = PostApply(me.amount, accType[a], ln)]
  IN  /\ me.pc = "saveAccount" /\ me.op = "post"
      /\ proc' = [proc EXCEPT ![p] =
                    IF HeldByOther(p, d) \/ d \in me.tx.dirty
                    THEN Finished(me, FALSE)
                    ELSE AfterLine(staged)]
      /\ UNCHANGED << entries, lines, balance, nextId, ops, txEntry, last, hist, rep, entryNumber,
                   chart, nextAccount, lastAccount, calc >>

\* post: auditTrail.save({ session }), session.commitTransaction().
PostCommit(p) ==
  LET me == proc[p]
  IN  /\ me.pc = "commit"
      /\ entries' = [entries EXCEPT ![me.e].status = me.tx.status]
      /\ balance' = [a \in Accounts |->
                       IF AccountDoc(a) \in me.tx.docs THEN me.tx.bal[a] ELSE balance[a]]
      /\ proc' = Committed([proc EXCEPT ![p] = Finished(me, TRUE)], p, me.tx.docs)
      /\ UNCHANGED << lines, nextId, ops, txEntry, last, hist, rep, entryNumber,
                   chart, nextAccount, lastAccount, calc >>

\* voidEntry: account.save(), no session.
VoidSaveAccount(p) ==
  LET me == proc[p]
      ln == me.ls[me.i]
      a == ln.accountId
      d == AccountDoc(a)
  IN  /\ me.pc = "saveAccount" /\ me.op = "void"
      /\ ~HeldByOther(p, d)
      /\ balance' = [balance EXCEPT ![a] = VoidApply(me.amount, accType[a], ln)]
      /\ proc' = Committed([proc EXCEPT ![p] = AfterLine(me)], p, {d})
      /\ UNCHANGED << entries, lines, nextId, ops, txEntry, last, hist, rep, entryNumber,
                   chart, nextAccount, lastAccount, calc >>

\* voidEntry: auditTrail.save(), this.save() with status 'voided', no session.
VoidSaveEntry(p) ==
  LET me == proc[p]
      d == EntryDoc(me.e)
  IN  /\ me.pc = "saveEntry" /\ me.op = "void"
      /\ ~HeldByOther(p, d)
      /\ entries' = [entries EXCEPT ![me.e].status = "voided"]
      /\ proc' = Committed([proc EXCEPT ![p] = Finished(me, TRUE)], p, {d})
      /\ UNCHANGED << lines, balance, nextId, ops, txEntry, last, hist, rep, entryNumber,
                   chart, nextAccount, lastAccount, calc >>

\* createReversalEntry: reversalEntry.save() and the reversal lines, no session.
ReverseSaveReversal(p) ==
  LET me == proc[p]
      r == nextId
      rdoc == [status |-> "draft", org |-> me.doc.org, journal |-> me.doc.journal,
               reversalOf |-> me.e, reversedBy |-> NoEntry]
  IN  /\ me.pc = "saveReversal"
      /\ nextId <= MaxEntries
      /\ entries' = [entries EXCEPT ![r] = rdoc]
      /\ lines' = [lines EXCEPT ![r] = ReversalLines(me.ls)]
      /\ nextId' = nextId + 1
      /\ proc' = [proc EXCEPT ![p] = [me EXCEPT !.pc = "saveEntry", !.r = r]]
      /\ entryNumber' = [entryNumber EXCEPT ![r] =
                           GenerateEntryNumber(entries, entryNumber, me.doc.org, me.doc.journal)]
      /\ UNCHANGED << balance, ops, txEntry, last, hist, rep,
                   chart, nextAccount, lastAccount, calc >>

\* createReversalEntry: this.reversedBy = reversalEntry._id, this.save().
ReverseSaveEntry(p) ==
  LET me == proc[p]
      d == EntryDoc(me.e)
  IN  /\ me.pc = "saveEntry" /\ me.op = "reverse"
      /\ ~HeldByOther(p, d)
      /\ entries' = [entries EXCEPT ![me.e].reversedBy = me.r]
      /\ proc' = Committed([proc EXCEPT ![p] = Finished(me, TRUE)], p, {d})
      /\ UNCHANGED << lines, balance, nextId, ops, txEntry, last, hist, rep, entryNumber,
                   chart, nextAccount, lastAccount, calc >>

\* ------------------------------------------------------ ChartOfAccounts model
\* An account number is a string of decimal digits, kept as the number it
\* spells; Digits gives back the string, ParseInt the number of a string.
RECURSIVE Digits(_)
Digits(n) == IF n < 10 THEN << n >> ELSE Append(Digits(n \div 10), n % 10)

RECURSIVE ParseInt(_)
ParseInt(str) ==
  IF str = << >> THEN 0 ELSE 10 * ParseInt(SubSeq(str, 1, Len(str) - 1)) + str[Len(str)]

\* The order of strings, by which sort: { accountNumber: -1 } sorts.
StringLess(s, t) ==
  \/ Len(s) < Len(t) /\ \A i \in 1..Len(s) : s[i] = t[i]
  \/ \E k \in 1..Len(s) :
       /\ k <= Len(t)
       /\ \A i \in 1..(k - 1) : s[i] = t[i]
       /\ s[k] < t[k]

\* switch (type): the prefix digit of the type.
AccountPrefix(type) ==
  CASE type = "asset" -> 1
    [] type = "liability" -> 2
    [] type = "equity" -> 3
    [] type = "revenue" -> 4
    [] type = "expense" -> 5
    [] OTHER -> 9

\* accountNumber: { $regex: `^${prefix}\\d*` }
MatchesPrefix(number, prefix) == Digits(number)[1] = prefix

GenerateAccountNumber(docs, org, type) ==
  LET prefix == AccountPrefix(type)
      found == { a \in AccountIds : /\ docs[a].exists
                                    /\ docs[a].org = org
                                    /\ MatchesPrefix(docs[a].accountNumber, prefix) }
  IN  IF found = {}
      THEN ParseInt(<< prefix, 0, 0, 0 >>)
      ELSE LET highestAccount ==
                 CHOOSE a \in found : \A x \in found :
                   ~StringLess(Digits(docs[a].accountNumber), Digits(docs[x].accountNumber))
           IN  ParseInt(Digits(docs[highestAccount].accountNumber)) + 1

\* pre('save'): "Account number ... is already in use"
NumberInUse(docs, org, number, self) ==
  \E a \in AccountIds :
    a # self /\ docs[a].exists /\ docs[a].org = org /\ docs[a].accountNumber = number

\* --------------------------------------------------------- accounts routes
\* The account numbers and types that requests carry; 0 is no accountNumber.
GivenNumbers == {0, 1999, 2000}
GivenTypes == {"asset", "liability"}

\* A request to the accounts routes is served; a run ends with the first
\* request that is refused.
ServeAccount == lastAccount.n < MaxAccountOps /\ lastAccount.ok

AccountAnswer(op, org, a, ok, type, generated) ==
  [op |-> op, org |-> org, a |-> a, ok |-> ok, type |-> type, generated |-> generated,
   n |-> lastAccount.n + 1]

\* Mutant of HasTransactions: only the lines of posted entries count.
HasTransactions_PostedOnly(a) ==
  \E e \in EntryIds : /\ entries[e].status = "posted"
                       /\ \E i \in 1..Len(lines[e]) : lines[e][i].accountId = a

\* JournalLine.findOne({ accountId: account._id })
HasTransactions(a) ==
  \E e \in EntryIds : \E i \in 1..Len(lines[e]) : lines[e][i].accountId = a

\* ChartOfAccounts.findOne({ parentAccount: account._id })
HasChildren(docs, a) ==
  \E c \in AccountIds : docs[c].exists /\ docs[c].parentAccount = a

\* findOne({ _id, organizationId })
AccountFound(org, a) == a \in AccountIds /\ chart[a].exists /\ chart[a].org = org

\* POST api/accounts
CreateAccount(org, accountNumber, type, parentAccount) ==
  LET generated == IF accountNumber = 0
                   THEN GenerateAccountNumber(chart, org, type) ELSE 0
      finalAccountNumber == IF accountNumber = 0 THEN generated ELSE accountNumber
      parentOk == parentAccount = NoAccount
                    \/ (AccountFound(org, parentAccount) /\ chart[parentAccount].type = type)
      ok == parentOk /\ ~NumberInUse(chart, org, finalAccountNumber, nextAccount)
  IN  /\ ServeAccount
      /\ ok => nextAccount <= MaxAccounts
      /\ IF ok
         THEN /\ chart' = [chart EXCEPT ![nextAccount] =
                             [exists |-> TRUE, org |-> org,
                              accountNumber |-> finalAccountNumber, type |-> type,
                              parentAccount |-> parentAccount, isArchived |-> FALSE]]
              /\ nextAccount' = nextAccount + 1
         ELSE UNCHANGED << chart, nextAccount >>
      /\ lastAccount' = AccountAnswer("create", org, IF ok THEN nextAccount ELSE NoAccount,
                                      ok, type, generated)
      /\ UNCHANGED << entries, lines, balance, nextId, ops, txEntry, last, hist, proc, rep,
                      entryNumber, calc >>

\* A request body without a parentAccount field.
Undefined == -1

\* PUT api/accounts/:id, with a body that carries every field the handler reads.
PutAccount(org, a, parentAccount, isArchived) ==
  LET account == chart[a]
      found == AccountFound(org, a)
      archiveOk == ~(isArchived /\ ~account.isArchived /\ HasTransactions(a))
      validated == parentAccount \notin {Undefined, NoAccount}
                     /\ parentAccount # account.parentAccount
      parentOk == validated =>
                    /\ AccountFound(org, parentAccount)
                    /\ chart[parentAccount].type = account.type
                    /\ parentAccount # a
      ok == found /\ archiveOk /\ parentOk
  IN  /\ ServeAccount
      /\ chart' = IF ok
                  THEN [chart EXCEPT ![a].parentAccount =
                                       IF parentAccount = Undefined THEN @ ELSE parentAccount,
                                     ![a].isArchived = isArchived]
                  ELSE chart
      /\ lastAccount' = AccountAnswer(IF isArchived THEN "archive" ELSE "update",
                                      org, a, ok, account.type, 0)
      /\ UNCHANGED << entries, lines, balance, nextId, ops, txEntry, last, hist, proc, rep,
                      entryNumber, nextAccount, calc >>

\* DELETE api/accounts/:id
DeleteAccount(org, a) ==
  LET found == AccountFound(org, a)
      ok == found /\ ~HasTransactions(a) /\ ~HasChildren(chart, a)
  IN  /\ ServeAccount
      /\ chart' = IF ok THEN [chart EXCEPT ![a] = NoAccountDoc] ELSE chart
      /\ lastAccount' = AccountAnswer("delete", org, a, ok, chart[a].type, 0)
      /\ UNCHANGED << entries, lines, balance, nextId, ops, txEntry, last, hist, proc, rep,
                      entryNumber, nextAccount, calc >>

\* ------------------------------------------------------- specifications
Next ==
  \/ \E org \in Orgs, j \in Journals, b \in Bodies : CreateEntry(org, j, b.status, b.lines)
  \/ \E org \in Orgs, e \in EntryIds, b \in Bodies : UpdateEntry(org, e, b.status, b.lines)
  \/ \E org \in Orgs, e \in EntryIds : PostEntry(org, e)
  \/ \E org \in Orgs, e \in EntryIds : VoidEntry(org, e)
  \/ \E org \in Orgs, e \in EntryIds : ReverseEntry(org, e)
  \/ \E org \in Orgs, e \in EntryIds : DeleteEntry(org, e)
  \/ \E org \in Orgs, j \in Journals : CreatePostedEntry(org, j)
  \/ SyncPendingTransactions

Spec == Init /\ [][Next]_vars

\* The posting engine alone: entries are created as drafts, then only posted,
\* voided and reversed.
NextPosting ==
  \/ \E org \in Orgs, j \in Journals, b \in DraftBodies :
       CreateEntry(org, j, b.status, b.lines)
  \/ \E org \in Orgs, e \in EntryIds : PostEntry(org, e)
  \/ \E org \in Orgs, e \in EntryIds : VoidEntry(org, e)
  \/ \E org \in Orgs, e \in EntryIds : ReverseEntry(org, e)

SpecPosting == Init /\ [][NextPosting]_vars

\* The posting engine with writes that may fail.
NextFaults ==
  \/ NextPosting
  \/ \E org \in Orgs, e \in EntryIds :
       \E k \in FaultPoints(lines[e]) : PostEntryFails(org, e, k)
  \/ \E org \in Orgs, e \in EntryIds :
       \E k \in FaultPoints(lines[e]) : VoidEntryFails(org, e, k)

SpecFaults == Init /\ [][NextFaults]_vars

\* ---------------------------------------------------- routes/reports.js
\* _calculateAccountBalance with asOfDate after every entry's date: the replay
\* of the lines of the organization's posted entries on one account.
RECURSIVE LinesBalance(_, _, _)
LinesBalance(a, type, ls) ==
  IF ls = << >> THEN 0
  ELSE LET ln == Head(ls)
           amount == IF ln.accountId # a THEN 0
                     ELSE IF type \in {"asset", "expense"} THEN ln.debit - ln.credit
                     ELSE ln.credit - ln.debit
       IN  amount + LinesBalance(a, type, Tail(ls))

RECURSIVE EntriesBalance(_, _, _)
EntriesBalance(org, a, n) ==
  IF n = 0 THEN 0
  ELSE (IF entries[n].status = "posted" /\ entries[n].org = org
        THEN LinesBalance(a, accType[a], lines[n]) ELSE 0)
       + EntriesBalance(org, a, n - 1)

CalculateAccountBalance(org, a) == EntriesBalance(org, a, MaxEntries)

\* ------------------------------------------------- ReportingService
\* JournalEntry.find({ organizationId, status: 'posted', date: { $gte, $lte } })
PostedEntries(org, from, to) ==
  { e \in EntryIds : /\ entries[e].status = "posted"
                     /\ entries[e].org = org
                     /\ rep.date[e] >= from
                     /\ rep.date[e] <= to }

\* JournalLine.find({ journalEntryId: { $in: entryIds } }): the lines of the
\* entries 1..n that are in es, each with its entry.
RECURSIVE JournalLinesOf(_, _)
JournalLinesOf(es, n) ==
  IF n = 0 THEN << >>
  ELSE JournalLinesOf(es, n - 1)
       \o (IF n \in es
           THEN [i \in 1..Len(lines[n]) |->
                   [journalEntryId |-> n, accountId |-> lines[n][i].accountId,
                    debit |-> lines[n][i].debit, credit |-> lines[n][i].credit]]
           ELSE << >>)

\* ChartOfAccounts.find({ organizationId, type, isActive: true })
ActiveAccounts(org) == { a \in Accounts : accOrg[a] = org /\ rep.active[a] }
ActiveOfType(org, type) == { a \in ActiveAccounts(org) : accType[a] = type }

\* _processAccountsForReport, totalAmount: the lines on accounts outside the
\* list are skipped; a group's amount is the sum of its lines, so the total over
\* the groups is the same for every groupBy.
RECURSIVE ProcessAccountsForReport(_, _)
ProcessAccountsForReport(accounts, ls) ==
  IF ls = << >> THEN 0
  ELSE LET ln == Head(ls)
           amount == IF ln.accountId \notin accounts THEN 0
                     ELSE IF accType[ln.accountId] \in {"asset", "expense"}
                          THEN ln.debit - ln.credit
                          ELSE ln.credit - ln.debit
       IN  amount + ProcessAccountsForReport(accounts, Tail(ls))

\* _calculateRetainedEarnings: revenue less expenses over the active accounts.
CalculateRetainedEarnings(org, ls) ==
  ProcessAccountsForReport(ActiveOfType(org, "revenue"), ls)
    - ProcessAccountsForReport(ActiveOfType(org, "expense"), ls)

\* Math.abs(...) < 0.01 of the balance sheet and of the trial balance.
ReportTol == 1

\* Entry dates and report dates, in days.
Days == 1..MaxDay

GenerateBalanceSheet(org, asOfDate) ==
  LET ls == JournalLinesOf(PostedEntries(org, 1, asOfDate), MaxEntries)
      totalAssets == ProcessAccountsForReport(ActiveOfType(org, "asset"), ls)
      totalLiabilities == ProcessAccountsForReport(ActiveOfType(org, "liability"), ls)
      totalEquity == ProcessAccountsForReport(ActiveOfType(org, "equity"), ls)
                       + CalculateRetainedEarnings(org, ls)
      liabilitiesAndEquity == totalLiabilities + totalEquity
  IN  [name |-> "balanceSheet", org |-> org, asOfDate |-> asOfDate,
       dateGenerated |-> rep.now,
       totalAssets |-> totalAssets, liabilitiesAndEquity |-> liabilitiesAndEquity,
       balanced |-> Abs(totalAssets - liabilitiesAndEquity) < ReportTol]

\* generateTrialBalance: one row per active account.
RECURSIVE SumDebit(_, _)
SumDebit(a, ls) ==
  IF ls = << >> THEN 0
  ELSE (IF Head(ls).accountId = a THEN Head(ls).debit ELSE 0) + SumDebit(a, Tail(ls))

RECURSIVE SumCredit(_, _)
SumCredit(a, ls) ==
  IF ls = << >> THEN 0
  ELSE (IF Head(ls).accountId = a THEN Head(ls).credit ELSE 0) + SumCredit(a, Tail(ls))

TrialBalanceRow(a, ls) ==
  LET netBalance == SumDebit(a, ls) - SumCredit(a, ls)
      onDebit == IF accType[a] \in {"asset", "expense"}
                 THEN netBalance > 0
                 ELSE ~(netBalance < 0)
  IN  [balance |-> netBalance,
       netDebit |-> IF onDebit THEN netBalance ELSE 0,
       netCredit |-> IF onDebit THEN 0 ELSE Abs(netBalance)]

RECURSIVE SumRows(_, _, _)
SumRows(rows, accounts, field) ==
  IF accounts = {} THEN 0
  ELSE LET a == CHOOSE x \in accounts : TRUE
       IN  rows[a][field] + SumRows(rows, accounts \ {a}, field)

GenerateTrialBalance(org, asOfDate) ==
  LET ls == JournalLinesOf(PostedEntries(org, 1, asOfDate), MaxEntries)
      accounts == ActiveAccounts(org)
      rows == [a \in accounts |-> TrialBalanceRow(a, ls)]
      netDebit == SumRows(rows, accounts, "netDebit")
      netCredit == SumRows(rows, accounts, "netCredit")
  IN  [name |-> "trialBalance", org |-> org, asOfDate |-> asOfDate,
       dateGenerated |-> rep.now,
       accounts |-> rows, netDebit |-> netDebit, netCredit |-> netCredit,
       balanced |-> Abs(netDebit - netCredit) < ReportTol]

\* _determineDefaultCashFlowCategory (no account carries metadata)
DetermineDefaultCashFlowCategory(a) ==
  CASE accType[a] \in {"expense", "revenue"} -> "operating"
    [] accType[a] = "asset" /\ accSubtype[a] \in {"fixed-assets", "investments", "intangible-assets"}
         -> "investing"
    [] accType[a] = "liability" /\ accSubtype[a] \in {"loans", "bonds-payable", "notes-payable"}
         -> "financing"
    [] accType[a] = "equity" -> "financing"
    [] OTHER -> "operating"

Classifications == {"operating", "investing", "financing"}

\* accountClassificationMap[id] || 'operating': the map holds the active accounts.
ClassificationOf(org, a) ==
  IF a \in ActiveAccounts(org) THEN DetermineDefaultCashFlowCategory(a) ELSE "operating"

\* Cash accounts, auto-detected: active assets of subtype 'cash'.
CashAccounts(org) ==
  { a \in ActiveOfType(org, "asset") : accSubtype[a] = "cash" }

\* The lines of ls that belong to entry e and are (cash = TRUE) or are not
\* (cash = FALSE) on a cash account.
EntryLinesOn(ls, e, cashIds, cash) ==
  SelectSeq(ls, LAMBDA l : l.journalEntryId = e /\ ((l.accountId \in cashIds) = cash))

RECURSIVE NetCashImpact(_)
NetCashImpact(cashLines) ==
  IF cashLines = << >> THEN 0
  ELSE Head(cashLines).debit - Head(cashLines).credit + NetCashImpact(Tail(cashLines))

\* accountGroups: per classification, whether it has a line and its total.  The
\* total grows by the account's running amount at every line of the account.
NoGroups ==
  [present |-> {}, amount |-> [a \in Accounts |-> 0], total |-> [c \in Classifications |-> 0]]

RECURSIVE AccountGroups(_, _, _)
AccountGroups(org, nonCashLines, groups) ==
  IF nonCashLines = << >> THEN groups
  ELSE LET ln == Head(nonCashLines)
           a == ln.accountId
           c == ClassificationOf(org, a)
           amount == groups.amount[a]
                       + (IF accType[a] \in {"asset", "expense"}
                          THEN ln.debit - ln.credit ELSE ln.credit - ln.debit)
       IN  AccountGroups(org, Tail(nonCashLines),
                         [present |-> groups.present \cup {c},
                          amount |-> [groups.amount EXCEPT ![a] = amount],
                          total |-> [groups.total EXCEPT ![c] = @ + amount]])

\* The items one entry adds to the activities: proportionalImpact is
\* netCashImpact * num / den, kept as the fraction.
EntryItems(org, ls, e, cashIds) ==
  LET cashLines == EntryLinesOn(ls, e, cashIds, TRUE)
      nonCashLines == EntryLinesOn(ls, e, cashIds, FALSE)
      netCashImpact == NetCashImpact(cashLines)
      groups == AccountGroups(org, nonCashLines, NoGroups)
  IN  IF nonCashLines = << >> \/ cashLines = << >> \/ Abs(netCashImpact) < ReportTol
      THEN {}
      ELSE { [entry |-> e, classification |-> c, netCashImpact |-> netCashImpact,
              num |-> Abs(groups.total[c]),
              den |-> Abs(groups.total[c]) + Abs(groups.total["operating"])
                        + Abs(groups.total["investing"]) + Abs(groups.total["financing"])]
             : c \in groups.present }

\* _classifyCashFlowActivities
ClassifyCashFlowActivities(org, ls, es, cashIds) ==
  UNION { EntryItems(org, ls, e, cashIds) : e \in es }

\* _calculateCashBalance: the posted entries with date <= date, their lines on
\* the cash accounts, debit less credit.
CalculateCashBalance(org, date, cashAccountIds) ==
  LET es == { e \in EntryIds : /\ entries[e].status = "posted"
                               /\ entries[e].org = org
                               /\ rep.date[e] <= date }
      cashLines == SelectSeq(JournalLinesOf(es, MaxEntries),
                             LAMBDA l : l.accountId \in cashAccountIds)
  IN  NetCashImpact(cashLines)

GenerateCashFlowStatement(org, startDate, endDate) ==
  LET es == PostedEntries(org, startDate, endDate)
      ls == JournalLinesOf(es, MaxEntries)
      beginningCashBalance == CalculateCashBalance(org, startDate, CashAccounts(org))
      endingCashBalance == CalculateCashBalance(org, endDate, CashAccounts(org))
  IN  [name |-> "cashFlow", org |-> org, startDate |-> startDate, endDate |-> endDate,
       dateGenerated |-> rep.now,
       items |-> ClassifyCashFlowActivities(org, ls, es, CashAccounts(org)),
       beginningCashBalance |-> beginningCashBalance,
       endingCashBalance |-> endingCashBalance,
       netChangeCash |-> endingCashBalance - beginningCashBalance]

\* generateIncomeStatement with showPercentages, grouped by account: each
\* expense item's percentOfRevenue as the fraction num / den.
PercentOfRevenue(amount, totalRevenue) ==
  IF totalRevenue # 0
  THEN [num |-> amount * 100, den |-> totalRevenue]
  ELSE [num |-> 0, den |-> 1]

GenerateIncomeStatement(org, startDate, endDate) ==
  LET ls == JournalLinesOf(PostedEntries(org, startDate, endDate), MaxEntries)
      totalRevenue == ProcessAccountsForReport(ActiveOfType(org, "revenue"), ls)
      expenses == { a \in ActiveOfType(org, "expense") :
                      ProcessAccountsForReport({a}, ls) # 0 }
      totalExpenses == ProcessAccountsForReport(ActiveOfType(org, "expense"), ls)
  IN  [name |-> "incomeStatement", org |-> org, startDate |-> startDate, endDate |-> endDate,
       dateGenerated |-> rep.now,
       totalRevenue |-> totalRevenue,
       items |-> { [account |-> a,
                    percentOfRevenue |->
                      PercentOfRevenue(Abs(ProcessAccountsForReport({a}, ls)), totalRevenue)]
                   : a \in expenses },
       expensesPercentOfRevenue |-> PercentOfRevenue(Abs(totalExpenses), totalRevenue),
       netIncomePercentOfRevenue |->
         PercentOfRevenue(totalRevenue - totalExpenses, totalRevenue)]

\* PUT api/accounts/:id with isActive in the body.
UpdateAccount(org, a, isActive) ==
  /\ accOrg[a] = org
  /\ rep.active[a] # isActive
  /\ isActive \/ Cardinality({ x \in Accounts : ~rep.active[x] }) < MaxInactive
  /\ rep' = [rep EXCEPT !.active[a] = isActive, !.report = NoReport]
  /\ UNCHANGED << entries, lines, balance, nextId, ops, txEntry, last, hist, proc, entryNumber,
                   chart, nextAccount, lastAccount, calc >>

\* A report is generated for the caller's organization.
Generate(report) ==
  /\ rep' = [rep EXCEPT !.report = report]
  /\ UNCHANGED << entries, lines, balance, nextId, ops, txEntry, last, hist, proc, entryNumber,
                   chart, nextAccount, lastAccount, calc >>

\* Time passes between two requests: new Date() gives a later value.
TimePasses ==
  /\ rep.now < MaxClock
  /\ rep' = [rep EXCEPT !.now = @ + 1]
  /\ UNCHANGED << entries, lines, balance, nextId, ops, txEntry, last, hist, proc, entryNumber,
                  chart, nextAccount, lastAccount, calc >>

\* Line lists of the entries the reports run over; each passes the post route.
Financed == << Ln("equipment", 3, 0), Ln("cash", 0, 1), Ln("loan", 0, 2) >>
NetsToZero == << Ln("cash", 2, 0), Ln("sales", 0, 1), Ln("rent", 0, 1) >>
RentPaid == << Ln("rent", 1, 0), Ln("cash", 0, 1) >>

NoLedgerEntry == [status |-> Absent, lines |-> << >>, date |-> 1]
LedgerEntries ==
  { [status |-> "posted", lines |-> ls, date |-> d] :
      ls \in {Balanced, OffByCent, Financed, NetsToZero, RentPaid}, d \in Days }
    \cup { [status |-> "draft", lines |-> Balanced, date |-> 1], NoLedgerEntry }

\* Reporting: a ledger of o1 as the routes leave it (posted entries pass the
\* post route's checks, balances are those the posted entries produced), every
\* account active.
InitReports ==
  \E ledger \in [EntryIds -> LedgerEntries] :
    /\ entries = [e \in EntryIds |->
                    IF ledger[e].status = Absent THEN NoDoc
                    ELSE [status |-> ledger[e].status, org |-> "o1", journal |-> "j1",
                          reversalOf |-> NoEntry, reversedBy |-> NoEntry]]
    /\ lines = [e \in EntryIds |-> NumberLines(ledger[e].lines)]
    /\ balance = [a \in Accounts |-> CalculateAccountBalance(accOrg[a], a)]
    /\ nextId = MaxEntries + 1
    /\ ops = 0
    /\ txEntry = NoEntry
    /\ last = [op |-> "init", org |-> NoOrg, e |-> NoEntry, ok |-> TRUE, changed |-> FALSE]
    /\ hist = NoHist
    /\ proc = [p \in Procs |-> Idle]
    /\ rep = [NoRep EXCEPT !.date = [e \in EntryIds |-> ledger[e].date]]
    /\ entryNumber = NumbersAsCreated(entries)
    /\ chart = NoChart
    /\ nextAccount = 1
    /\ lastAccount = NoAccountRequest
    /\ calc = NoCalc

NextReports ==
  \/ \E org \in Orgs, a \in Accounts, isActive \in BOOLEAN : UpdateAccount(org, a, isActive)
  \/ \E org \in Orgs, d \in Days : Generate(GenerateBalanceSheet(org, d))
  \/ \E org \in Orgs, d \in Days : Generate(GenerateTrialBalance(org, d))
  \/ \E org \in Orgs, d1 \in Days, d2 \in Days :
       d1 <= d2 /\ Generate(GenerateCashFlowStatement(org, d1, d2))
  \/ \E org \in Orgs, d1 \in Days, d2 \in Days :
       d1 <= d2 /\ Generate(GenerateIncomeStatement(org, d1, d2))
  \/ TimePasses

SpecReports == InitReports /\ [][NextReports]_vars

\* The accounts routes: either nothing exists, or o1 has one asset account,
\* created without an accountNumber, and a draft entry with a line on it.
InitAccounts ==
  \E seeded \in BOOLEAN :
    /\ entries = [e \in EntryIds |->
                    IF seeded /\ e = 1
                    THEN [status |-> "draft", org |-> "o1", journal |-> "j1",
                          reversalOf |-> NoEntry, reversedBy |-> NoEntry]
                    ELSE NoDoc]
    /\ lines = [e \in EntryIds |->
                  IF seeded /\ e = 1 THEN NumberLines(<< Ln(1, 1, 0) >>) ELSE << >>]
    /\ balance = ZeroBal
    /\ nextId = IF seeded THEN 2 ELSE 1
    /\ ops = 0
    /\ txEntry = NoEntry
    /\ last = [op |-> "init", org |-> NoOrg, e |-> NoEntry, ok |-> TRUE, changed |-> FALSE]
    /\ hist = NoHist
    /\ proc = [p \in Procs |-> Idle]
    /\ rep = NoRep
    /\ entryNumber = NumbersAsCreated(entries)
    /\ chart = [a \in AccountIds |->
                  IF seeded /\ a = 1
                  THEN [exists |-> TRUE, org |-> "o1",
                        accountNumber |-> GenerateAccountNumber(NoChart, "o1", "asset"),
                        type |-> "asset", parentAccount |-> NoAccount, isArchived |-> FALSE]
                  ELSE NoAccountDoc]
    /\ nextAccount = IF seeded THEN 2 ELSE 1
    /\ lastAccount = NoAccountRequest
    /\ calc = NoCalc

NextAccounts ==
  \/ \E org \in Orgs, number \in GivenNumbers, type \in GivenTypes,
        parent \in AccountIds \cup {NoAccount} :
       CreateAccount(org, number, type, parent)
  \/ \E org \in Orgs, a \in AccountIds, parent \in AccountIds \cup {NoAccount, Undefined},
        isArchived \in BOOLEAN :
       PutAccount(org, a, parent, isArchived)
  \/ \E org \in Orgs, a \in AccountIds : DeleteAccount(org, a)

SpecAccounts == InitAccounts /\ [][NextAccounts]_vars

\* ------------------------------------------- one line through every engine
\* routes/reports, general ledger: endingBalance and runningBalance after a line.
GeneralLedgerBalance(amount, type, ln) ==
  IF type \in {"asset", "expense"} THEN amount + ln.debit - ln.credit
  ELSE amount + ln.credit - ln.debit

\* GET api/accounts/:id/transactions: beginningBalance and runningBalance after
\* a line.
AccountTransactionsBalance(amount, type, ln) ==
  IF type \in {"asset", "expense"} THEN amount + ln.debit - ln.credit
  ELSE amount + ln.credit - ln.debit

\* The lines that pass the validation of JournalLine, on account a.
SignLines(a) ==
  { ln \in { Ln(a, d, c) : d \in 0..MaxLineAmount, c \in 0..MaxLineAmount } : LineValid(ln) }

\* Engine k has taken the line and changed its figure by v.
Record(k, v) ==
  /\ k \notin calc.done
  /\ calc' = [calc EXCEPT !.done = @ \cup {k}, !.result[k] = v]
  /\ UNCHANGED << entries, lines, balance, nextId, ops, txEntry, last, hist, proc, rep,
                  entryNumber, chart, nextAccount, lastAccount >>

\* The journal line as the reports read it.
ReportLine == << [journalEntryId |-> 1, accountId |-> calc.a,
                  debit |-> calc.ln.debit, credit |-> calc.ln.credit] >>

PostLine == Record("post", PostApply(calc.amount, accType[calc.a], calc.ln) - calc.amount)
HookLine == Record("hook", HookApply(calc.amount, accType[calc.a], calc.ln) - calc.amount)
VoidLine == Record("void", VoidApply(calc.amount, accType[calc.a], calc.ln) - calc.amount)
ReportGroupLine == Record("report", ProcessAccountsForReport({calc.a}, ReportLine))
RetainedEarningsLine ==
  Record("retained", CalculateRetainedEarnings(accOrg[calc.a], ReportLine))
BeginningBalanceLine ==
  Record("beginning", LinesBalance(calc.a, accType[calc.a], << calc.ln >>))
RunningBalanceLine ==
  Record("running", GeneralLedgerBalance(calc.amount, accType[calc.a], calc.ln) - calc.amount)
TransactionsLine ==
  Record("transactions",
         AccountTransactionsBalance(calc.amount, accType[calc.a], calc.ln) - calc.amount)

\* One valid line on one account with a starting balance; nothing else exists.
InitSigns ==
  /\ entries = [e \in EntryIds |-> NoDoc]
  /\ lines = [e \in EntryIds |-> << >>]
  /\ balance = ZeroBal
  /\ nextId = 1
  /\ ops = 0
  /\ txEntry = NoEntry
  /\ last = [op |-> "init", org |-> NoOrg, e |-> NoEntry, ok |-> TRUE, changed |-> FALSE]
  /\ hist = NoHist
  /\ proc = [p \in Procs |-> Idle]
  /\ rep = NoRep
  /\ entryNumber = [e \in EntryIds |-> NoNumber]
  /\ chart = NoChart
  /\ nextAccount = 1
  /\ lastAccount = NoAccountRequest
  /\ \E a \in Accounts, amount \in 0..MaxLineAmount :
       \E ln \in SignLines(a) :
         calc = [NoCalc EXCEPT !.a = a, !.ln = ln, !.amount = amount]

NextSigns ==
  \/ PostLine
  \/ HookLine
  \/ VoidLine
  \/ ReportGroupLine
  \/ RetainedEarningsLine
  \/ BeginningBalanceLine
  \/ RunningBalanceLine
  \/ TransactionsLine

SpecSigns == InitSigns /\ [][NextSigns]_vars

\* Overlapping requests: one or two entries of o1 exist, each a draft or posted,
\* the balances are those the posted ones produced, and every handler is called
\* once, on any of them.
EntryOf(st) ==
  [status |-> st, org |-> "o1", journal |-> "j1", reversalOf |-> NoEntry, reversedBy |-> NoEntry]

InitOverlap ==
  \E s1 \in {"draft", "posted"}, two \in BOOLEAN, s2 \in {"draft", "posted"} :
    /\ ~two => s2 = "draft"
    /\ entries = [e \in EntryIds |->
                    IF e = 1 THEN EntryOf(s1)
                    ELSE IF e = 2 /\ two THEN EntryOf(s2)
                    ELSE NoDoc]
    /\ lines = [e \in EntryIds |->
                  IF e = 1 THEN NumberLines(Balanced)
                  ELSE IF e = 2 /\ two THEN NumberLines(OffByCent)
                  ELSE << >>]
    /\ balance = [a \in Accounts |->
                    (IF s1 = "posted" THEN LinesBalance(a, accType[a], Balanced) ELSE 0)
                    + (IF two /\ s2 = "posted"
                       THEN LinesBalance(a, accType[a], OffByCent) ELSE 0)]
    /\ nextId = IF two THEN 3 ELSE 2
    /\ ops = 0
    /\ txEntry = NoEntry
    /\ last = [op |-> "init", org |-> NoOrg, e |-> NoEntry, ok |-> TRUE, changed |-> FALSE]
    /\ hist = [stage |-> "overlap", e |-> NoEntry, r |-> NoEntry, bal |-> balance]
    /\ proc = [p \in Procs |-> Idle]
    /\ rep = NoRep
    /\ entryNumber = NumbersAsCreated(entries)
    /\ chart = NoChart
    /\ nextAccount = 1
    /\ lastAccount = NoAccountRequest
    /\ calc = NoCalc

NextOverlap ==
  \E p \in Procs :
    \/ \E op \in {"post", "void", "reverse"}, e \in EntryIds : Begin(p, op, e)
    \/ FindEntry(p)
    \/ PostSaveEntry(p)
    \/ ReadAccount(p)
    \/ PostSaveAccount(p)
    \/ PostCommit(p)
    \/ VoidSaveAccount(p)
    \/ VoidSaveEntry(p)
    \/ ReverseSaveReversal(p)
    \/ ReverseSaveEntry(p)

SpecOverlap == InitOverlap /\ [][NextOverlap]_vars

\* ------------------------------------------------------------- claims
Ledger == << entries, lines, balance >>

\* The signed amount of the sign convention for one line on account a: debit
\* adds and credit subtracts for asset and expense accounts, the reverse for
\* liability, equity and revenue accounts.
SignedAmount(a, ln) ==
  IF accType[a] \in {"asset", "expense"} THEN ln.debit - ln.credit
  ELSE ln.credit - ln.debit

RECURSIVE SignedSum(_, _)
SignedSum(a, ls) ==
  IF ls = << >> THEN 0
  ELSE (IF Head(ls).accountId = a THEN SignedAmount(a, Head(ls)) ELSE 0)
       + SignedSum(a, Tail(ls))

\* C1: after any sequence of post, void and reverse requests every cached
\* balance equals the replay of the lines of the entries whose status is posted.
C1_CachedBalanceIsReplay ==
  \A a \in Accounts : balance[a] = CalculateAccountBalance(accOrg[a], a)

\* C2: an accepted post leaves the entry posted and has changed every account by
\* the sum of the signed amounts of all the entry's lines on it.
C2_PostAppliesEveryLine ==
  hist.stage = "p" =>
    /\ entries[hist.e].status = "posted"
    /\ \A a \in Accounts : balance[a] = hist.bal[a] + SignedSum(a, lines[hist.e])

\* C3: every posted entry has at least one line and its debits and credits
\* differ by at most the tolerance.
C3_PostedEntriesBalanced ==
  \A e \in EntryIds :
    entries[e].status = "posted" =>
      /\ Len(lines[e]) >= 1
      /\ Abs(TotalDebits(lines[e]) - TotalCredits(lines[e])) <= Tol

C3_Witness ==
  /\ last.op = "update" /\ last.ok
  /\ entries[last.e].status = "posted"
  /\ TotalDebits(lines[last.e]) # TotalCredits(lines[last.e])

\* C4: a post request on an entry that is not a draft, has no line or is out of
\* balance changes no entry, no line and no balance.
C4_RejectedPostChangesNothing ==
  [][ ( /\ last'.op = "post" /\ ops' # ops
        /\ \/ entries[last'.e].status # "draft"
           \/ Len(lines[last'.e]) = 0
           \/ Abs(TotalDebits(lines[last'.e]) - TotalCredits(lines[last'.e])) > Tol )
      => UNCHANGED Ledger ]_vars

C4_Witness ==
  /\ last.op = "post" /\ ~last.ok
  /\ entries[last.e].status = "posted" /\ entries[last.e].org = last.org

\* C5: post(E) followed by void(E) leaves every balance as it was before the
\* post, and E voided.
C5_PostThenVoidRestores ==
  hist.stage = "pv" =>
    /\ entries[hist.e].status = "voided"
    /\ balance = hist.bal

\* C6: a void request on a voided or a reconciled entry fails and changes no
\* entry, no line and no balance.
C6_VoidOfVoidedOrReconciledFails ==
  [][ ( /\ last'.op = "void" /\ ops' # ops
        /\ entries[last'.e].status \in {"voided", "reconciled"} )
      => (~last'.ok /\ UNCHANGED Ledger) ]_vars

C6_Witness ==
  /\ last.op = "void" /\ ~last.ok
  /\ entries[last.e].status = "reconciled" /\ entries[last.e].org = last.org

\* C7: no step moves an entry from posted back to draft, or from voided or
\* reversed to another status.
C7_StatusOnlyMovesForward ==
  [][ \A e \in EntryIds :
        /\ entries[e].status = "posted" => entries'[e].status # "draft"
        /\ entries[e].status \in {"voided", "reversed"}
             => entries'[e].status = entries[e].status ]_vars

\* C8: a void request on an entry that has a reversedBy pointer is rejected and
\* changes no balance.
C8_ReversedEntryCannotBeVoided ==
  [][ ( /\ last'.op = "void" /\ ops' # ops
        /\ Found(last'.org, last'.e)
        /\ entries[last'.e].reversedBy # NoEntry )
      => (~last'.ok /\ balance' = balance) ]_vars

\* C9: createReversalEntry on a posted entry E not yet reversed creates exactly
\* one entry R: a draft in E's organization and journal, linked both ways, with
\* E's lines line for line, debit and credit swapped; no balance changes.
C9_ReversalMirrorsEntry ==
  [][ ( /\ last'.op = "reverse" /\ ops' # ops
        /\ Found(last'.org, last'.e)
        /\ entries[last'.e].status = "posted"
        /\ entries[last'.e].reversedBy = NoEntry )
      => LET e == last'.e IN
         \E r \in EntryIds \ {e} :
           /\ entries[r].status = Absent
           /\ entries'[r].status = "draft"
           /\ entries'[r].org = entries[e].org
           /\ entries'[r].journal = entries[e].journal
           /\ entries'[r].reversalOf = e
           /\ entries'[e] = [entries[e] EXCEPT !.reversedBy = r]
           /\ \A x \in EntryIds \ {e, r} : entries'[x] = entries[x]
           /\ \A x \in EntryIds \ {r} : lines'[x] = lines[x]
           /\ Len(lines'[r]) = Len(lines[e])
           /\ \A i \in 1..Len(lines[e]) :
                /\ lines'[r][i].accountId = lines[e][i].accountId
                /\ lines'[r][i].lineNumber = lines[e][i].lineNumber
                /\ lines'[r][i].debit = lines[e][i].credit
                /\ lines'[r][i].credit = lines[e][i].debit
           /\ balance' = balance ]_vars

C9_Witness ==
  /\ last.op = "reverse" /\ last.ok
  /\ entries[last.e].reversedBy # NoEntry
  /\ Len(lines[last.e]) = 3

\* C10: post(E), createReversalEntry(E) and post(R) in a row leave every balance
\* as it was before E was posted.
C10_PostedReversalRestores ==
  hist.stage = "prp" => balance = hist.bal

C10_Witness ==
  /\ hist.stage = "prp"
  /\ entries[hist.r].status = "posted" /\ entries[hist.e].status = "posted"
  /\ Len(lines[hist.e]) = 3
  /\ balance # [a \in Accounts |-> hist.bal[a] + SignedSum(a, lines[hist.e])]

C12_OnlyDraftsEdited ==
  [][ ( /\ last'.op \in {"update", "delete"} /\ ops' # ops
        /\ Found(last'.org, last'.e)
        /\ entries[last'.e].status \in {"posted", "voided", "reversed", "reconciled"} )
      => lines'[last'.e] = lines[last'.e] ]_vars

\* C13: a post or void request that fails leaves every balance and every
\* entry's status as they were before it.
C13_FailedPostOrVoidChangesNothing ==
  [][ (last'.op \in {"post", "void"} /\ ops' # ops /\ ~last'.ok)
      => (balance' = balance /\ entries' = entries) ]_vars

\* The requests in progress have all been answered.
AllDone == \A p \in Procs : proc[p].pc = "done"

\* C14: when two requests on the same entry overlap, the entry's lines are
\* applied to the balances at most once and un-applied at most once (each
\* balance ends where it started, or one application or one un-application
\* away), and the entry gets at most one reversal.
C14_SameEntryNoInterleaving ==
  (AllDone /\ proc["p1"].e = proc["p2"].e) =>
    LET e == proc["p1"].e IN
    /\ \A a \in Accounts :
         balance[a] - hist.bal[a] \in
           {0, SignedSum(a, lines[e]), 0 - SignedSum(a, lines[e])}
    /\ Cardinality({ r \in EntryIds : /\ entries[r].status # Absent
                                      /\ entries[r].reversalOf = e }) <= 1

\* The change a finished request makes to account a when it runs alone.
DeltaOf(p, a) ==
  LET me == proc[p] IN
  IF me.op = "post" THEN SignedSum(a, me.ls)
  ELSE IF me.op = "void" /\ me.doc.status = "posted" THEN 0 - SignedSum(a, me.ls)
  ELSE 0

\* C15: when two requests that post or void two different entries overlap and
\* both succeed, every balance ends with the changes of both.
C15_NoLostBalanceUpdate ==
  ( /\ AllDone
    /\ proc["p1"].e # proc["p2"].e
    /\ \A p \in Procs : proc[p].ok /\ proc[p].op \in {"post", "void"} )
  => \A a \in Accounts :
       balance[a] = hist.bal[a] + DeltaOf("p1", a) + DeltaOf("p2", a)

\* C16: every persisted journal line has debit >= 0, credit >= 0 and exactly one
\* of the two strictly positive.
C16_LinesDebitXorCredit ==
  \A e \in EntryIds : \A i \in 1..Len(lines[e]) :
    LET ln == lines[e][i] IN
    /\ ln.debit >= 0
    /\ ln.credit >= 0
    /\ (ln.debit > 0) # (ln.credit > 0)

C16_Witness ==
  /\ last.op = "update" /\ last.ok
  /\ entries[last.e].reversalOf # NoEntry
  /\ Len(lines[last.e]) = 3
  /\ \E e \in EntryIds : entries[e].reversedBy = last.e /\ Len(lines[e]) = 2

\* C17: a balance sheet reports balanced = true whenever every posted entry of
\* the organization passes the balance check of the post route.
C17_BalanceSheetBalanced ==
  ( /\ rep.report.name = "balanceSheet"
    /\ \A e \in EntryIds :
         (entries[e].status = "posted" /\ entries[e].org = rep.report.org)
           => ~Unbalanced(lines[e]) )
  => rep.report.balanced

\* C18: a trial balance puts each account's debits less credits on exactly one
\* of netDebit and netCredit, and when every posted entry dated on or before
\* asOfDate has equal debits and credits it reports balanced = true with equal
\* totals.
C18_TrialBalanceBalanced ==
  rep.report.name = "trialBalance" =>
    /\ \A a \in DOMAIN rep.report.accounts :
         LET row == rep.report.accounts[a] IN
         /\ row.netDebit = 0 \/ row.netCredit = 0
         /\ row.netDebit >= 0 /\ row.netCredit >= 0
         /\ row.netDebit - row.netCredit = row.balance
    /\ (\A e \in PostedEntries(rep.report.org, 1, rep.report.asOfDate) :
          TotalDebits(lines[e]) = TotalCredits(lines[e]))
       => (rep.report.balanced /\ rep.report.netDebit = rep.report.netCredit)

\* The sum of the fractions num / den of a set of items, as a fraction.
RECURSIVE SumOfShares(_)
SumOfShares(items) ==
  IF items = {} THEN [num |-> 0, den |-> 1]
  ELSE LET it == CHOOSE x \in items : TRUE
           rest == SumOfShares(items \ {it})
       IN  [num |-> it.num * rest.den + rest.num * it.den, den |-> it.den * rest.den]

\* C19: in a cash flow statement, for every posted entry of the period with a
\* nonzero net cash impact, the amounts attributed to the activities
\* (netCashImpact * num / den each) sum to the net cash impact.
C19_CashFlowAttributionSums ==
  rep.report.name = "cashFlow" =>
    \A e \in PostedEntries(rep.report.org, rep.report.startDate, rep.report.endDate) :
      LET cashLines == SelectSeq(lines[e], LAMBDA l : l.accountId \in CashAccounts(rep.report.org))
          net == TotalDebits(cashLines) - TotalCredits(cashLines)
          shares == SumOfShares({ it \in rep.report.items : it.entry = e })
      IN  net # 0 => (shares.den # 0 /\ shares.num = shares.den)

\* C20: no report divides by zero: every ratio of an income statement and every
\* proportional attribution of a cash flow statement has a nonzero
\* denominator, and the income statement's percentages are 0 when total
\* revenue is 0.
C20_NoDivisionByZero ==
  /\ rep.report.name = "cashFlow" => \A it \in rep.report.items : it.den # 0
  /\ rep.report.name = "incomeStatement" =>
       /\ \A it \in rep.report.items :
            /\ it.percentOfRevenue.den # 0
            /\ rep.report.totalRevenue = 0 => it.percentOfRevenue.num = 0
       /\ rep.report.expensesPercentOfRevenue.den # 0
       /\ rep.report.netIncomePercentOfRevenue.den # 0

\* C21: every entry a request creates gets a number whose sequence part is one
\* more than that of the latest entry of its journal (1 for the first), and no
\* two entries of one journal have the same entry number.
C21_EntryNumbersSequential ==
  /\ [][ \A n \in EntryIds :
           (entries[n].status = Absent /\ entries'[n].status # Absent) =>
             LET lastEntry == LastEntry(entries, entries'[n].org, entries'[n].journal)
             IN  entryNumber'[n][3] =
                   (IF lastEntry = NoEntry THEN 1 ELSE entryNumber[lastEntry][3] + 1) ]_vars
  /\ [](\A e1 \in EntryIds, e2 \in EntryIds :
          (/\ e1 # e2
           /\ entries[e1].status # Absent /\ entries[e2].status # Absent
           /\ entries[e1].org = entries[e2].org
           /\ entries[e1].journal = entries[e2].journal)
          => entryNumber[e1] # entryNumber[e2])

\* The numbers of the organization's accounts in the band of a prefix.
Band(docs, org, prefix) ==
  { docs[a].accountNumber : a \in { x \in AccountIds :
      /\ docs[x].exists /\ docs[x].org = org
      /\ docs[x].accountNumber \in (prefix * 1000)..(prefix * 1000 + 999) } }

\* C22: the number generateAccountNumber returns is used by no account of the
\* organization and lies in the band of the type's prefix: prefix000 when the
\* band is empty, else the greatest number of the band plus one.
C22_GeneratedAccountNumber ==
  [][ (/\ lastAccount'.n = lastAccount.n + 1
       /\ lastAccount'.op = "create"
       /\ lastAccount'.generated # 0)
      => LET r == lastAccount'.generated
             org == lastAccount'.org
             prefix == AccountPrefix(lastAccount'.type)
             band == Band(chart, org, prefix)
         IN  /\ ~NumberInUse(chart, org, r, NoAccount)
             /\ r \in (prefix * 1000)..(prefix * 1000 + 999)
             /\ r = (IF band = {} THEN prefix * 1000
                     ELSE (CHOOSE m \in band : \A x \in band : x <= m) + 1) ]_vars

\* The accounts reached from a by following parentAccount links n times or fewer.
RECURSIVE AncestorsWithin(_, _)
AncestorsWithin(a, n) ==
  IF n = 0 \/ chart[a].parentAccount = NoAccount THEN {}
  ELSE {chart[a].parentAccount}
         \cup (IF chart[a].parentAccount \in AccountIds
               THEN AncestorsWithin(chart[a].parentAccount, n - 1) ELSE {})

\* C23: no account is its own ancestor, directly or through a chain of
\* parentAccount links.
C23_NoParentCycle ==
  \A a \in AccountIds : chart[a].exists => a \notin AncestorsWithin(a, MaxAccounts)

\* Account a is referenced by a journal line; account a has a child account.
LineReferences(a) ==
  \E e \in EntryIds : \E i \in 1..Len(lines[e]) : lines[e][i].accountId = a
ChildReferences(a) ==
  \E c \in AccountIds : chart[c].exists /\ chart[c].parentAccount = a

HasForeignAccount(org, ls) == \E i \in 1..Len(ls) : accOrg[ls[i].accountId] # org

\* C25: every line of an entry is on an account of the entry's organization; a
\* post, void, reverse, update or delete request of one organization on an
\* entry of another, or an update whose lines name an account of another, is
\* refused and changes nothing; no request of one organization changes the
\* balance of an account of another.
C25_OrganizationsIsolated ==
  /\ [](\A e \in EntryIds : \A i \in 1..Len(lines[e]) :
          entries[e].status # Absent => accOrg[lines[e][i].accountId] = entries[e].org)
  /\ [][ (/\ ops' = ops + 1
          /\ last'.op \in {"post", "void", "reverse", "update", "delete"}
          /\ last'.e \in EntryIds
          /\ entries[last'.e].status # Absent
          /\ entries[last'.e].org # last'.org)
         => (~last'.ok /\ UNCHANGED Ledger) ]_vars
  /\ [][ \A org \in Orgs, e \in EntryIds, b \in Bodies :
           (HasForeignAccount(org, b.lines) /\ UpdateEntry(org, e, b.status, b.lines))
             => (~last'.ok /\ UNCHANGED Ledger) ]_vars
  /\ [][ (ops' = ops + 1 /\ last'.org \in Orgs)
         => \A a \in Accounts : accOrg[a] # last'.org => balance'[a] = balance[a] ]_vars

\* Two reports of the same generator with the same arguments.
SameArguments(r1, r2) ==
  /\ r1.name = r2.name
  /\ r1.name # "none"
  /\ r1.org = r2.org
  /\ IF r1.name \in {"balanceSheet", "trialBalance"}
     THEN r1.asOfDate = r2.asOfDate
     ELSE r1.startDate = r2.startDate /\ r1.endDate = r2.endDate

\* C26: a report generator called again with the same arguments over an
\* unchanged ledger returns the same output, and no report generator changes an
\* entry, a line or an account.
C26_ReportsArePure ==
  [][ /\ (/\ SameArguments(rep.report, rep'.report)
          /\ UNCHANGED << entries, lines, balance >>
          /\ rep'.active = rep.active /\ rep'.date = rep.date)
         => rep'.report = rep.report
      /\ (rep'.report # rep.report /\ rep'.report.name # "none")
         => (UNCHANGED << entries, lines, balance, entryNumber, chart >>
             /\ rep'.active = rep.active /\ rep'.date = rep.date) ]_vars

\* C27: the amount by which the post route (and the line hook) changes the
\* balance for a line equals the amount by which each report replay counts the
\* line (retained earnings: as revenue, or as expense taken off), and voidEntry
\* changes the balance by its negation.
C27_OneSignConvention ==
  "post" \in calc.done =>
    /\ \A k \in calc.done \cap {"hook", "report", "beginning", "running", "transactions"} :
         calc.result[k] = calc.result["post"]
    /\ "void" \in calc.done => calc.result["void"] = 0 - calc.result["post"]
    /\ "retained" \in calc.done =>
         calc.result["retained"] =
           (CASE accType[calc.a] = "revenue" -> calc.result["post"]
              [] accType[calc.a] = "expense" -> 0 - calc.result["post"]
              [] OTHER -> 0)

C27_Witness ==
  /\ calc.done = Engines
  /\ accType[calc.a] = "equity"
  /\ calc.ln.credit > 0
  /\ calc.result["post"] # 0

\* C28: a voided entry contributes nothing to any cached balance, whichever
\* request voided it: when every entry that exists is a draft or voided, every
\* balance is zero.
C28_VoidedContributesNothing ==
  (\A e \in EntryIds : entries[e].status \in {Absent, "draft", "voided"})
    => \A a \in Accounts : balance[a] = 0

\* C29: the reversal link is symmetric and never dangles: an entry's reversedBy
\* names an entry that exists and whose reversalOf names it back, and an entry's
\* reversalOf names an entry whose reversedBy names it back.
C29_ReversalLinkSymmetric ==
  \A e \in EntryIds :
    /\ (entries[e].status # Absent /\ entries[e].reversedBy # NoEntry) =>
         /\ entries[entries[e].reversedBy].status # Absent
         /\ entries[entries[e].reversedBy].reversalOf = e
    /\ (entries[e].status # Absent /\ entries[e].reversalOf # NoEntry) =>
         entries[entries[e].reversalOf].reversedBy = e

\* C30: in a cash flow statement netChangeCash equals the debits less the
\* credits on the cash accounts of the posted entries dated from startDate to
\* endDate, both included: the entries whose other lines are classified.
C30_NetChangeIsPeriodActivity ==
  rep.report.name = "cashFlow" =>
    LET period == { e \in EntryIds : /\ entries[e].status = "posted"
                                     /\ entries[e].org = rep.report.org
                                     /\ rep.date[e] >= rep.report.startDate
                                     /\ rep.date[e] <= rep.report.endDate }
        cashLinesOf(e) ==
          SelectSeq(lines[e], LAMBDA l : l.accountId \in CashAccounts(rep.report.org))
        activity[n \in 0..MaxEntries] ==
          IF n = 0 THEN 0
          ELSE activity[n - 1]
               + (IF n \in period
                  THEN TotalDebits(cashLinesOf(n)) - TotalCredits(cashLinesOf(n)) ELSE 0)
    IN  rep.report.netChangeCash = activity[MaxEntries]

====
